---- MODULE Spec2Model ----
(***************************************************************************)
(* A model of busy_beaver.py: the BusyBeaver Turing-machine simulator.     *)
(*                                                                         *)
(* The machine's fields (tape, current_position, current_state, contents,  *)
(* nstates, tape_length) and the locals of run() (result, t_num_ones,      *)
(* steps, check) are the state.  Python lists are 0-indexed and accept     *)
(* negative indices; sequences here are 1-indexed, so every list access    *)
(* goes through PyIndexOk / PyGet / PySet.                                  *)
(*                                                                         *)
(* History variables (calls, delta_sum, all_returned, pre, cp, stalled,    *)
(* printed, io) record what a caller observes; no action's guard reads     *)
(* them, except calls, which caps the length of the explored executions.   *)
(*                                                                         *)
(* Spec explores construction, step() and run(); SpecIO adds the table     *)
(* file with load() and save(), on one-state machines.                     *)
(***************************************************************************)
EXTENDS Integers, Sequences, FiniteSets, TLC

\* ------------------------------------------------------------------ bounds
\* Tape lengths 0..MaxTape are explored, check intervals 1..MaxCheck, and
\* executions of at most MaxSteps calls of step().
MaxTape == 2
MaxCheck == 2
MaxSteps == 3

TapeLengths == 0..MaxTape
CheckIntervals == 1..MaxCheck

\* Machines of one and of two states are enumerated exhaustively: the number
\* of tables of n states is (4(n+1))^(2n), 64 and 20736.
StateCounts == {1, 2}

\* A transition is the tuple (p, dir, next) of __init__'s docstring.
Entries(n) == {<<p, d, x>> : p \in {0, 1}, d \in {-1, 1}, x \in -1..(n - 1)}

\* Tuples the constructor is also handed without complaint: a symbol that is
\* no bit, a move that is no direction, a next state that is no state.
LooseEntries(n) == {<<p, d, x>> : p \in 0..2, d \in {-1, 0, 1}, x \in -1..n}

ValidTables == UNION {[1..n -> [1..2 -> Entries(n)]] : n \in StateCounts}
LooseTables == [1..1 -> [1..2 -> LooseEntries(1)]]
Tables == ValidTables \cup LooseTables

\* The machine of the worked example: one state, both transitions
\* (write 1, move right, halt), on a tape of length 10.
ExampleTable == <<<< <<1, 1, -1>>, <<1, 1, -1>> >>>>
ExampleMachines == {<<10, c>> : c \in [1..1 -> [1..2 -> Entries(1)]]}

\* What the constructor is called with: (tape_length, contents).
Constructions == (TapeLengths \X Tables) \cup ExampleMachines

\* run() prints a snapshot when steps is a multiple of this.
PrintEvery == 1000000

\* No table file on disk.
NoFile == [exists |-> FALSE, lines |-> <<>>]

\* ------------------------------------------------------------------- state
VARIABLES
    nstates, tape_length, tape, current_position, current_state, contents,
    pc,            \* "ready": no call in progress; "loop": inside run()'s while
    check,         \* run()'s argument
    result,        \* the tuple the last step() returned
    t_num_ones,    \* run()'s local: [isMethod, val]
    steps,         \* run()'s local
    last_op,       \* "init" | "step" | "run": the caller's last call
    outcome,       \* how that call ended
    calls,         \* history: step() calls made since construction
    delta_sum,     \* history: sum of the deltas those calls returned
    all_returned,  \* history: every step() call so far returned normally
    pre,           \* history: the machine just before the latest step() call
    cp,            \* history: the latest progress checkpoint of run()
    stalled,       \* history: some checkpoint saw the count of the one before
    silent,        \* run()'s argument
    printed,       \* history: the snapshots run() has printed
    file,          \* the table file on disk: [exists, lines]
    io             \* history: the tables around the latest save() and load()

vars == <<nstates, tape_length, tape, current_position, current_state, contents,
          pc, check, result, t_num_ones, steps, last_op, outcome,
          calls, delta_sum, all_returned, pre, cp, stalled,
          silent, printed, file, io>>

\* ------------------------------------------------------- Python list access
PyIndexOk(s, i) == -Len(s) <= i /\ i < Len(s)
PyPos(s, i) == IF i >= 0 THEN i + 1 ELSE Len(s) + i + 1
PyGet(s, i) == s[PyPos(s, i)]
PySet(s, i, v) == [s EXCEPT ![PyPos(s, i)] = v]

\* ------------------------------------------------------------- DELTA_ONES
DeltaKeyOk(r, w) == r \in {0, 1} /\ w \in {0, 1}

\* The table with the entries of (1, 0) and (1, 1) exchanged.
DELTA_ONES_Swapped(r, w) ==
    CASE r = 0 /\ w = 0 -> 0
      [] r = 0 /\ w = 1 -> 1
      [] r = 1 /\ w = 0 -> 0
      [] r = 1 /\ w = 1 -> -1

DELTA_ONES(r, w) ==
    CASE r = 0 /\ w = 0 -> 0
      [] r = 0 /\ w = 1 -> 1
      [] r = 1 /\ w = 0 -> -1
      [] r = 1 /\ w = 1 -> 0

\* -------------------------------------------------------------- count_ones
RECURSIVE SumSeq(_)
SumSeq(s) == IF s = <<>> THEN 0 ELSE Head(s) + SumSeq(Tail(s))

count_ones(t) == SumSeq(t)

\* -------------------------------------------------------------------- step
\* A machine is [tape, pos, state]; step yields the machine it leaves, the
\* exception it raised ("none" when it returned) and the tuple it returned.
Machine(t, p, s) == [tape |-> t, pos |-> p, state |-> s]

Raised(t, p, s, e) == [tape |-> t, pos |-> p, state |-> s, exc |-> e, ret |-> <<0, 0>>]

\* The bounds test without its left half.
OffTape_RightOnly(p, t) == p >= Len(t)

\* The bounds test with > for >=.
OffTape_Lax(p, t) == p < 0 \/ p > Len(t)

OffTape(p, t) == p < 0 \/ p >= Len(t)

\* step() with the write made after the move, at the new position.
step_WriteAfterMove(m, tbl) ==
    IF ~PyIndexOk(m.tape, m.pos)
    THEN Raised(m.tape, m.pos, m.state, "IndexError")
    ELSE
    LET current_read == PyGet(m.tape, m.pos) IN
    IF ~PyIndexOk(tbl, m.state) \/ ~PyIndexOk(PyGet(tbl, m.state), current_read)
    THEN Raised(m.tape, m.pos, m.state, "IndexError")
    ELSE
    LET current_transition == PyGet(PyGet(tbl, m.state), current_read)
        pos1 == m.pos + current_transition[2]
        tape1 == PySet(m.tape, pos1, current_transition[1])
        state1 == current_transition[3]
        halt_flag == IF state1 = -1 THEN 1 ELSE 0
    IN
    IF ~PyIndexOk(current_transition, 0) \/ ~PyIndexOk(current_transition, 1)
    THEN Raised(m.tape, m.pos, m.state, "IndexError")
    ELSE IF OffTape(pos1, m.tape)
    THEN Raised(m.tape, pos1, m.state, "TapeOverrun")
    ELSE IF ~PyIndexOk(current_transition, 2)
    THEN Raised(tape1, pos1, m.state, "IndexError")
    ELSE IF ~DeltaKeyOk(current_read, current_transition[1])
    THEN Raised(tape1, pos1, state1, "KeyError")
    ELSE [tape |-> tape1, pos |-> pos1, state |-> state1, exc |-> "none",
          ret |-> <<halt_flag, DELTA_ONES(current_read, current_transition[1])>>]

\* step() with the state updated before the bounds test.
step_StateBeforeCheck(m, tbl) ==
    IF ~PyIndexOk(m.tape, m.pos)
    THEN Raised(m.tape, m.pos, m.state, "IndexError")
    ELSE
    LET current_read == PyGet(m.tape, m.pos) IN
    IF ~PyIndexOk(tbl, m.state) \/ ~PyIndexOk(PyGet(tbl, m.state), current_read)
    THEN Raised(m.tape, m.pos, m.state, "IndexError")
    ELSE
    LET current_transition == PyGet(PyGet(tbl, m.state), current_read)
        tape1 == PySet(m.tape, m.pos, current_transition[1])
        pos1 == m.pos + current_transition[2]
        state1 == current_transition[3]
        halt_flag == IF state1 = -1 THEN 1 ELSE 0
    IN
    IF ~PyIndexOk(current_transition, 0)
    THEN Raised(m.tape, m.pos, m.state, "IndexError")
    ELSE IF ~PyIndexOk(current_transition, 1)
    THEN Raised(tape1, m.pos, m.state, "IndexError")
    ELSE IF ~PyIndexOk(current_transition, 2)
    THEN Raised(tape1, pos1, m.state, "IndexError")
    ELSE IF OffTape(pos1, tape1)
    THEN Raised(tape1, pos1, state1, "TapeOverrun")
    ELSE IF ~DeltaKeyOk(current_read, current_transition[1])
    THEN Raised(tape1, pos1, state1, "KeyError")
    ELSE [tape |-> tape1, pos |-> pos1, state |-> state1, exc |-> "none",
          ret |-> <<halt_flag, DELTA_ONES(current_read, current_transition[1])>>]

step(m, tbl) ==
    IF ~PyIndexOk(m.tape, m.pos)
    THEN Raised(m.tape, m.pos, m.state, "IndexError")
    ELSE
    LET current_read == PyGet(m.tape, m.pos) IN
    IF ~PyIndexOk(tbl, m.state) \/ ~PyIndexOk(PyGet(tbl, m.state), current_read)
    THEN Raised(m.tape, m.pos, m.state, "IndexError")
    ELSE
    LET current_transition == PyGet(PyGet(tbl, m.state), current_read)
        tape1 == PySet(m.tape, m.pos, current_transition[1])
        pos1 == m.pos + current_transition[2]
        state1 == current_transition[3]
        halt_flag == IF state1 = -1 THEN 1 ELSE 0
    IN
    IF ~PyIndexOk(current_transition, 0)
    THEN Raised(m.tape, m.pos, m.state, "IndexError")
    ELSE IF ~PyIndexOk(current_transition, 1)
    THEN Raised(tape1, m.pos, m.state, "IndexError")
    ELSE IF OffTape(pos1, tape1)
    THEN Raised(tape1, pos1, m.state, "TapeOverrun")
    ELSE IF ~PyIndexOk(current_transition, 2)
    THEN Raised(tape1, pos1, m.state, "IndexError")
    ELSE IF ~DeltaKeyOk(current_read, current_transition[1])
    THEN Raised(tape1, pos1, state1, "KeyError")
    ELSE [tape |-> tape1, pos |-> pos1, state |-> state1, exc |-> "none",
          ret |-> <<halt_flag, DELTA_ONES(current_read, current_transition[1])>>]

Self == Machine(tape, current_position, current_state)

\* ---------------------------------------------------------------- __init__
\* The midpoint taken of the last index.
StartPosition_Low(L) == (L - 1) \div 2

StartPosition(L) == L \div 2

\* The constructor called with (tape_length, contents), beside the file f.
Constructed(L, c, f) ==
    /\ nstates = Len(c)
    /\ tape_length = L
    /\ tape = [i \in 1..L |-> 0]
    /\ current_position = StartPosition(L)
    /\ current_state = 0
    /\ contents = c
    /\ pc = "ready"
    /\ check = 1
    /\ result = <<0, 0>>
    /\ t_num_ones = [isMethod |-> FALSE, val |-> 0]
    /\ steps = 0
    /\ last_op = "init"
    /\ outcome = "none"
    /\ calls = 0
    /\ delta_sum = 0
    /\ all_returned = TRUE
    /\ pre = Machine(tape, current_position, current_state)
    /\ cp = [at |-> FALSE, prev |-> 0, cur |-> 0]
    /\ stalled = FALSE
    /\ silent = TRUE
    /\ printed = <<>>
    /\ file = f
    /\ io = [saved |-> FALSE, at_save |-> c, before_load |-> c]

Init == \E a \in Constructions : Constructed(a[1], a[2], NoFile)

\* The effect of one call of step(), made on machine m, on the machine and on
\* the history.
Stepped(m, r) ==
    /\ tape' = r.tape
    /\ current_position' = r.pos
    /\ current_state' = r.state
    /\ pre' = m
    /\ calls' = calls + 1
    /\ delta_sum' = IF r.exc = "none" THEN delta_sum + r.ret[2] ELSE delta_sum
    /\ all_returned' = (all_returned /\ r.exc = "none")
    /\ UNCHANGED <<nstates, tape_length, contents, file, io>>

\* A caller's own call of step(), on a machine run() was not called on.
ManualStep ==
    /\ pc = "ready"
    /\ last_op \in {"init", "step", "load", "save"}
    /\ calls < MaxSteps
    /\ LET r == step(Self, contents) IN
        /\ Stepped(Self, r)
        /\ result' = IF r.exc = "none" THEN r.ret ELSE result
        /\ outcome' = IF r.exc = "none" THEN "returned" ELSE r.exc
    /\ last_op' = "step"
    /\ UNCHANGED <<pc, check, t_num_ones, steps, cp, stalled, silent, printed>>

\* --------------------------------------------------------------------- run
\* t_num_ones == self.count_ones(): an int never equals a bound method.
TNumEq(t, n) == ~t.isMethod /\ t.val = n

\* run(check) on a machine no step has been made on: the code before the loop.
RunStart ==
    /\ pc = "ready"
    /\ last_op \in {"init", "load", "save"}
    /\ \E c \in CheckIntervals : check' = c
    /\ \E b \in BOOLEAN : silent' = b
    /\ pc' = "loop"
    /\ result' = <<0, 0>>
    /\ t_num_ones' = [isMethod |-> FALSE, val |-> count_ones(tape)]
    /\ steps' = 0
    /\ last_op' = "run"
    /\ outcome' = "none"
    /\ cp' = [at |-> FALSE, prev |-> count_ones(tape), cur |-> count_ones(tape)]
    /\ UNCHANGED <<nstates, tape_length, tape, current_position, current_state,
                   contents, calls, delta_sum, all_returned, pre, stalled,
                   printed, file, io>>

\* The snapshot taken by reading the cell with a step of the head.
print_current_state_Moves(m, n) ==
    IF ~PyIndexOk(m.tape, m.pos)
    THEN [exc |-> "IndexError", machine |-> m, line |-> <<>>]
    ELSE [exc |-> "none", machine |-> Machine(m.tape, m.pos + 1, m.state),
          line |-> <<n, m.pos, m.state, PyGet(m.tape, m.pos), count_ones(m.tape)>>]

\* print_current_state(steps) on machine m: the line it prints, the machine
\* it leaves and the exception it raised (it reads tape[current_position]).
print_current_state(m, n) ==
    IF ~PyIndexOk(m.tape, m.pos)
    THEN [exc |-> "IndexError", machine |-> m, line |-> <<>>]
    ELSE [exc |-> "none", machine |-> m,
          line |-> <<n, m.pos, m.state, PyGet(m.tape, m.pos), count_ones(m.tape)>>]

\* The loop body prints a snapshot first: not silent, and steps % 1000000 == 0.
Prints == ~silent /\ steps % PrintEvery = 0

Snapshot == print_current_state(Self, steps)

\* The snapshot raised: run() ends before the step.
SnapshotRaised ==
    /\ pc' = "ready"
    /\ outcome' = Snapshot.exc
    /\ tape' = Snapshot.machine.tape
    /\ current_position' = Snapshot.machine.pos
    /\ current_state' = Snapshot.machine.state
    /\ UNCHANGED <<nstates, tape_length, contents, file, io, result, t_num_ones,
                   steps, cp, stalled, calls, delta_sum, all_returned, pre, printed>>

\* The rest of the loop body with steps = steps + 1 indented into the
\* checkpoint's else branch.
StepAndCheck_CountAtCheckpoints(m) ==
    LET r == step(m, contents)
        n == count_ones(r.tape)
    IN
    /\ Stepped(m, r)
    /\ IF r.exc # "none"
       THEN /\ pc' = "ready"
            /\ outcome' = r.exc
            /\ UNCHANGED <<result, t_num_ones, steps, cp, stalled>>
       ELSE /\ result' = r.ret
            /\ IF steps % check = 0
               THEN /\ cp' = [at |-> TRUE, prev |-> cp.cur, cur |-> n]
                    /\ stalled' = (stalled \/ cp.cur = n)
                    /\ IF TNumEq(t_num_ones, n)
                       THEN /\ pc' = "ready"
                            /\ outcome' = "InsufficientProgress"
                            /\ UNCHANGED <<t_num_ones, steps>>
                       ELSE /\ t_num_ones' = [isMethod |-> TRUE, val |-> 0]
                            /\ steps' = steps + 1
                            /\ UNCHANGED <<pc, outcome>>
               ELSE /\ cp' = [cp EXCEPT !.at = FALSE]
                    /\ UNCHANGED <<pc, outcome, t_num_ones, steps, stalled>>

\* The rest of the loop body, on the machine m the snapshot left: the step,
\* the progress check, the counter.
StepAndCheck(m) ==
    LET r == step(m, contents)
        n == count_ones(r.tape)
    IN
    /\ Stepped(m, r)
    /\ IF r.exc # "none"
       THEN /\ pc' = "ready"
            /\ outcome' = r.exc
            /\ UNCHANGED <<result, t_num_ones, steps, cp, stalled>>
       ELSE /\ result' = r.ret
            /\ IF steps % check = 0
               THEN /\ cp' = [at |-> TRUE, prev |-> cp.cur, cur |-> n]
                    /\ stalled' = (stalled \/ cp.cur = n)
                    /\ IF TNumEq(t_num_ones, n)
                       THEN /\ pc' = "ready"
                            /\ outcome' = "InsufficientProgress"
                            /\ UNCHANGED <<t_num_ones, steps>>
                       ELSE /\ t_num_ones' = [isMethod |-> TRUE, val |-> 0]
                            /\ steps' = steps + 1
                            /\ UNCHANGED <<pc, outcome>>
               ELSE /\ cp' = [cp EXCEPT !.at = FALSE]
                    /\ steps' = steps + 1
                    /\ UNCHANGED <<pc, outcome, t_num_ones, stalled>>

\* One pass through the body of the while loop.
RunIter ==
    /\ pc = "loop"
    /\ result[1] = 0
    /\ calls < MaxSteps
    /\ IF Prints /\ Snapshot.exc # "none"
       THEN SnapshotRaised
       ELSE /\ StepAndCheck(IF Prints THEN Snapshot.machine ELSE Self)
            /\ printed' = IF Prints THEN Append(printed, Snapshot.line) ELSE printed
    /\ UNCHANGED <<check, last_op, silent>>

\* The loop condition fails: run() returns.
RunExit ==
    /\ pc = "loop"
    /\ result[1] # 0
    /\ pc' = "ready"
    /\ outcome' = "Halted"
    /\ UNCHANGED <<nstates, tape_length, tape, current_position, current_state,
                   contents, check, result, t_num_ones, steps, last_op,
                   calls, delta_sum, all_returned, pre, cp, stalled,
                   silent, printed, file, io>>

Next == ManualStep \/ RunStart \/ RunIter \/ RunExit

Spec == Init /\ [][Next]_vars

\* -------------------------------------------------------------------- load
\* A file is a sequence of lines, a line the sequence of its
\* whitespace-separated tokens.  load() replaces 'L' by '-1' and 'R' by '1'
\* in the line, splits it and converts every token with int().
Replaced(t) == CASE t = "L" -> "-1" [] t = "R" -> "1" [] OTHER -> t

IsInt(t) == t \in {"-1", "0", "1", "2"}

int(t) == CASE t = "-1" -> -1 [] t = "0" -> 0 [] t = "1" -> 1 [] t = "2" -> 2

Min(a, b) == IF a <= b THEN a ELSE b

\* vals[lo:hi] of Python, for 0 <= lo <= hi.
Slice(vals, lo, hi) == SubSeq(vals, lo + 1, Min(hi, Len(vals)))

\* (tuple(vals[0:3]), tuple(vals[3:6]))
LineEntry(line) ==
    LET vals == [i \in 1..Len(line) |-> int(Replaced(line[i]))]
    IN <<Slice(vals, 0, 3), Slice(vals, 3, 6)>>

LineConverts(line) == \A i \in 1..Len(line) : IsInt(Replaced(line[i]))

\* load(filename): the table is assigned after the whole file was read.
Load ==
    /\ pc = "ready"
    /\ last_op \in {"init", "save"}
    /\ IF ~file.exists
       THEN outcome' = "FileNotFoundError" /\ UNCHANGED contents
       ELSE IF \E i \in 1..Len(file.lines) : ~LineConverts(file.lines[i])
       THEN outcome' = "ValueError" /\ UNCHANGED contents
       ELSE /\ outcome' = "returned"
            /\ contents' = [i \in 1..Len(file.lines) |-> LineEntry(file.lines[i])]
    /\ last_op' = "load"
    /\ io' = [io EXCEPT !.before_load = contents]
    /\ UNCHANGED <<nstates, tape_length, tape, current_position, current_state,
                   pc, check, result, t_num_ones, steps, calls, delta_sum,
                   all_returned, pre, cp, stalled, silent, printed, file>>

\* -------------------------------------------------------------------- save
\* save(filename): the body is a TODO; nothing is written.
Save ==
    /\ pc = "ready"
    /\ last_op \in {"init", "load"}
    /\ outcome' = "returned"
    /\ last_op' = "save"
    /\ io' = [io EXCEPT !.saved = TRUE, !.at_save = contents]
    /\ UNCHANGED <<nstates, tape_length, tape, current_position, current_state,
                   contents, pc, check, result, t_num_ones, steps, calls,
                   delta_sum, all_returned, pre, cp, stalled, silent, printed,
                   file>>

\* The lines of the load format for one state, 'write move next' twice ...
FormatLines ==
    {<<w0, m0, n0, w1, m1, n1>> :
        w0 \in {"0", "1"}, m0 \in {"L", "R"}, n0 \in {"-1", "0"},
        w1 \in {"0", "1"}, m1 \in {"L", "R"}, n1 \in {"-1", "0"}}

\* ... those lines with the last token missing, a line with a symbol that is
\* no bit, one with a move that is no direction, one with a next state that
\* is no state, an empty line and a line of seven tokens.
ShortLines == {SubSeq(l, 1, 5) : l \in FormatLines}

OddLines ==
    {<<"2", "R", "0", "1", "R", "0">>, <<"1", "X", "0", "1", "R", "0">>,
     <<"1", "R", "1", "1", "R", "1">>, <<>>,
     <<"1", "R", "0", "1", "L", "-1", "0">>}

Files ==
    {NoFile, [exists |-> TRUE, lines |-> <<>>]}
        \cup {[exists |-> TRUE, lines |-> <<l>>] :
                l \in FormatLines \cup ShortLines \cup OddLines}

\* The machines load() and save() are explored on: one state, a valid
\* table, the longest tape.
IOConstructions == {MaxTape} \X [1..1 -> [1..2 -> Entries(1)]]

InitIO == \E a \in IOConstructions, f \in Files : Constructed(a[1], a[2], f)

NextIO == Load \/ Save \/ ManualStep \/ RunStart \/ RunIter \/ RunExit

SpecIO == InitIO /\ [][NextIO]_vars

\* ------------------------------------------------------- reading the state
\* The table obeys the structure __init__ documents, for nstates states.
ValidEntry(e) ==
    /\ Len(e) = 3
    /\ e[1] = 0 \/ e[1] = 1
    /\ e[2] = -1 \/ e[2] = 1
    /\ e[3] >= -1 /\ e[3] < nstates

ValidTable(tbl) ==
    /\ Len(tbl) = nstates
    /\ \A s \in 1..Len(tbl) : ValidEntry(tbl[s][1]) /\ ValidEntry(tbl[s][2])

Valid == ValidTable(contents)

\* The machine a constructor call with this tape length leaves.
Fresh == Machine([i \in 1..tape_length |-> 0], StartPosition(tape_length), 0)

\* n calls of step() made by hand, whatever each of them raised.
RECURSIVE StepN(_, _, _)
StepN(m, tbl, n) ==
    IF n = 0 THEN m
    ELSE LET r == step(StepN(m, tbl, n - 1), tbl) IN Machine(r.tape, r.pos, r.state)

\* run(check=c, silent=True) on machine m0 with table tbl, followed for k
\* evaluations of the loop condition: where it stands (pc, outcome), its
\* locals steps, result and t_num_ones, and the machine.
RECURSIVE SilentRun(_, _, _, _)
SilentRun(m0, tbl, c, k) ==
    IF k = 0
    THEN [machine |-> m0, pc |-> "loop", outcome |-> "none", steps |-> 0,
          result |-> <<0, 0>>,
          t_num_ones |-> [isMethod |-> FALSE, val |-> count_ones(m0.tape)]]
    ELSE
    LET q == SilentRun(m0, tbl, c, k - 1)
        r == step(q.machine, tbl)
        m == Machine(r.tape, r.pos, r.state)
    IN
    IF q.pc # "loop" THEN q
    ELSE IF q.result[1] # 0 THEN [q EXCEPT !.pc = "ready", !.outcome = "Halted"]
    ELSE IF r.exc # "none"
    THEN [q EXCEPT !.machine = m, !.pc = "ready", !.outcome = r.exc]
    ELSE IF q.steps % c # 0
    THEN [q EXCEPT !.machine = m, !.result = r.ret, !.steps = q.steps + 1]
    ELSE IF TNumEq(q.t_num_ones, count_ones(r.tape))
    THEN [q EXCEPT !.machine = m, !.result = r.ret, !.pc = "ready",
                   !.outcome = "InsufficientProgress"]
    ELSE [q EXCEPT !.machine = m, !.result = r.ret, !.steps = q.steps + 1,
                   !.t_num_ones = [isMethod |-> TRUE, val |-> 0]]

\* run() is over: it returned or it raised.
RunEnded == last_op = "run" /\ pc = "ready"

\* The number of the step run() ended at, read off its own counter: the
\* counter is incremented at the end of every iteration that raised nothing.
RunStepCount == IF outcome = "Halted" THEN steps ELSE steps + 1

\* The transition the latest step() call looked up.
LastTransition == PyGet(PyGet(contents, pre.state), PyGet(pre.tape, pre.pos))

\* The latest step() call was made on a machine that was Running: not in the
\* halt state and with its head on the tape.
SteppedWhileRunning ==
    /\ calls > 0
    /\ pre.state # -1
    /\ pre.pos >= 0 /\ pre.pos < tape_length

\* C1: for a valid table, as long as every step() call returned, the count
\* of ones computed afresh from the tape equals the initial count (0) plus
\* the sum of the deltas the calls returned.
C1_FreshCountIsRunningTotal ==
    (Valid /\ all_returned) => count_ones(tape) = delta_sum

C1_Witness ==
    /\ Valid /\ all_returned /\ calls >= 3
    /\ result[2] = -1 /\ count_ones(tape) = 0

\* C2: for a valid table, when run() has ended at step n, the machine is the
\* one n calls of step() by hand leave from a fresh machine.
C2_RunIsManualStepping ==
    (Valid /\ RunEnded) => Self = StepN(Fresh, contents, RunStepCount)

C2_Witness ==
    /\ Valid /\ RunEnded /\ RunStepCount = 3 /\ check = 2
    /\ outcome = "TapeOverrun" /\ count_ones(tape) = 2

\* C3: for a valid table, a step() on a Running machine raises the tape
\* overrun exactly when its move leaves [0, tape_length); the write of that
\* step is on the tape, current_state is the one before the step, and no
\* call is in progress any more.
C3_OverrunAtTheStepThatLeaves ==
    (Valid /\ SteppedWhileRunning) =>
        LET e == LastTransition
            left == pre.pos + e[2] < 0 \/ pre.pos + e[2] >= tape_length
        IN
        /\ left <=> outcome = "TapeOverrun"
        /\ left => /\ tape = PySet(pre.tape, pre.pos, e[1])
                   /\ current_state = pre.state
                   /\ pc = "ready"

C3_Witness ==
    /\ Valid /\ SteppedWhileRunning /\ outcome = "TapeOverrun"
    /\ calls = 3 /\ last_op = "run"
    /\ LastTransition[1] # PyGet(pre.tape, pre.pos)
    /\ LastTransition[3] # current_state

\* C4: for a valid table, once a step() inside run() has returned the halt
\* flag, run() is leaving its loop or has returned: it has not failed.
C4_HaltEndsRunAsHalted ==
    (Valid /\ last_op = "run" /\ result[1] = 1) =>
        (pc = "loop" \/ outcome = "Halted")

\* C5: the worked example. The head starts at 5; run() takes exactly one
\* step and returns with one 1 on the tape, in cell 5, the head at 6 and the
\* machine in the halt state.
ExampleRun == tape_length = 10 /\ contents = ExampleTable /\ last_op = "run"

C5_WorkedExample ==
    ExampleRun =>
        /\ calls <= 1
        /\ calls = 0 => current_position = 5 /\ pc = "loop"
        /\ calls = 1 => /\ result = <<1, 1>>
                        /\ tape = [i \in 1..10 |-> IF i = 6 THEN 1 ELSE 0]
                        /\ count_ones(tape) = 1
                        /\ current_position = 6
                        /\ current_state = -1
        /\ pc = "ready" => outcome = "Halted" /\ steps = 1 /\ calls = 1

C5_Witness == ExampleRun /\ pc = "ready" /\ outcome = "Halted"

\* C6: at every checkpoint of run() at which the count of ones equals the
\* count at the checkpoint before (the count at the start, for the first),
\* run() fails with InsufficientProgress. (Stated for the checkpoints whose
\* step did not halt the machine, where nothing else can end the run.)
C6_EveryCheckpointCompares ==
    (Valid /\ last_op = "run" /\ result[1] = 0 /\ cp.at /\ cp.prev = cp.cur) =>
        outcome = "InsufficientProgress"

\* Two states that toggle two neighbouring cells for ever: left of the start
\* and back.
Oscillator ==
    << << <<1, -1, 1>>, <<0, -1, 1>> >>, << <<1, 1, 0>>, <<0, 1, 0>> >> >>

\* C7: run() on the oscillator, whose count repeats with period 4, is over,
\* failed with InsufficientProgress, as soon as a checkpoint has seen the
\* count of the checkpoint before.
C7_OscillatorRunFails ==
    (contents = Oscillator /\ tape_length >= 2 /\ last_op = "run" /\ stalled) =>
        (pc = "ready" /\ outcome = "InsufficientProgress")

\* Every transition moves right and none halts.
AllRight ==
    /\ Valid
    /\ \A s \in 1..Len(contents) : \A b \in 1..2 :
            contents[s][b][2] = 1 /\ contents[s][b][3] # -1

\* Such a table that writes a 1 every other step on a blank tape.
AlternatingRight ==
    /\ AllRight
    /\ Len(contents) = 2
    /\ contents[1][1] = <<1, 1, 1>>
    /\ contents[2][1] = <<0, 1, 0>>

OverrunStep == tape_length - (tape_length \div 2)

\* C8 as stated: the overrun of a right-moving table happens within L/2
\* steps.
C8_OverrunWithinHalfTheTape ==
    (AlternatingRight /\ outcome = "TapeOverrun") => 2 * calls <= tape_length

\* C8, amended: for L >= 1 the overrun of a right-moving table happens at
\* step() call L - (L div 2) and at no earlier call.
C8_OverrunAtCeilHalfTheTape ==
    (AllRight /\ tape_length >= 1 /\ calls >= 1 /\ calls <= OverrunStep) =>
        (outcome = "TapeOverrun" <=> calls = OverrunStep)

C8_Witness ==
    /\ AlternatingRight /\ tape_length = 1 /\ calls = OverrunStep
    /\ outcome = "TapeOverrun" /\ last_op = "step"

\* C9: a step() call on a machine that is not Running (halted, or with its
\* head off the tape after an overrun) raises and leaves the machine as it
\* was.
C9_StepWhenNotRunningIsRefused ==
    (Valid /\ last_op = "step" /\ calls > 0
        /\ (pre.state = -1 \/ pre.pos < 0 \/ pre.pos >= tape_length)) =>
        (outcome # "returned" /\ Self = pre)

\* C10: no run() ends in a fault of the table (a state or a symbol that
\* indexes nothing, a written symbol DELTA_ONES has no key for): a table with
\* such an entry was rejected before.
C10_NoTableFaultInARun ==
    ~(last_op = "run" /\ outcome \in {"IndexError", "KeyError"})

\* The table is valid and none of its entries leads to Halt.
NoHalt ==
    /\ Valid
    /\ \A st \in 1..Len(contents) : contents[st][1][3] # -1 /\ contents[st][2][3] # -1

\* What C11 promises of a machine: the state is an index of the table, no
\* step has returned the halt flag, the machine is not Halted, a step() made
\* by hand on a Running machine returns or raises the tape overrun, and run() ends
\* only in the tape overrun or in insufficient progress.
NeverHaltsNorCrashes ==
    /\ current_state >= 0 /\ current_state < nstates
    /\ result[1] = 0
    /\ outcome # "Halted"
    /\ (last_op = "step" /\ SteppedWhileRunning) => outcome \in {"returned", "TapeOverrun"}
    /\ RunEnded => outcome \in {"TapeOverrun", "InsufficientProgress"}

C12_FiveTokenLineFailsTheLoad ==
    (/\ last_op = "load"
     /\ file.exists
     /\ \E i \in 1..Len(file.lines) : Len(file.lines[i]) = 5)
        => (outcome # "returned" /\ contents = io.before_load)

\* C13: a load() of the file a save() has just been made to returns and
\* leaves the machine with the valid table it held at the save.
C13_SaveThenLoadRoundTrips ==
    (last_op = "load" /\ io.saved /\ ValidTable(io.at_save))
        => (outcome = "returned" /\ contents = io.at_save)

\* C14: a machine that has only been constructed, whatever its tape length
\* and its table, is Running: it is in state 0, every cell of its tape is
\* 0, its head is at tape_length div 2 and nothing has stepped or failed.
C14_FreshMachineIsRunning ==
    last_op = "init" =>
        /\ pc = "ready" /\ outcome = "none" /\ calls = 0
        /\ current_state = 0
        /\ Len(tape) = tape_length
        /\ \A i \in 1..Len(tape) : tape[i] = 0
        /\ current_position = tape_length \div 2

C14_Witness == last_op = "init" /\ tape_length = 2 /\ nstates = 2 /\ ~NoHalt

\* C15: no operation changes the table or the length of the tape, and a
\* cell changes only in a step() call, only where the head was before the
\* call (a head left of the tape reads from the right end, as the list
\* does), and, for a valid table in a state of the table, to the write
\* symbol of the entry looked up.
C15_StepFrame ==
    [][/\ contents' = contents
       /\ tape_length' = tape_length
       /\ Len(tape') = Len(tape)
       /\ \A i \in 1..Len(tape) :
             tape'[i] # tape[i] =>
                /\ calls' = calls + 1
                /\ \/ i = current_position + 1
                   \/ current_position < 0 /\ i = current_position + 1 + Len(tape)
                /\ (Valid /\ current_state # -1) =>
                       tape'[i] = contents[current_state + 1][tape[i] + 1][1]]_vars

C15_Witness ==
    /\ Valid /\ last_op = "run" /\ calls >= 2
    /\ \E i \in 1..Len(tape) : tape[i] # pre.tape[i]

\* C16: for a valid table and a tape of at least one cell, as long as every
\* step() call returned, the head is on the tape, every cell holds 0 or 1,
\* and the state is an index of the table or Halt.
C16_InvariantWhileStepsReturn ==
    (Valid /\ tape_length >= 1 /\ all_returned) =>
        /\ current_position >= 0 /\ current_position < tape_length
        /\ \A i \in 1..Len(tape) : tape[i] = 0 \/ tape[i] = 1
        /\ current_state >= -1 /\ current_state < nstates

C16_Witness ==
    /\ Valid /\ tape_length >= 1 /\ all_returned /\ calls = MaxSteps
    /\ current_state = -1 /\ count_ones(tape) >= 1

\* The latest step() call looked up an entry that leads to Halt and moves
\* the head off the tape.
HaltingMoveOffTape ==
    /\ Valid /\ SteppedWhileRunning
    /\ LastTransition[3] = -1
    /\ \/ pre.pos + LastTransition[2] < 0
       \/ pre.pos + LastTransition[2] >= tape_length

\* C17: a step() whose entry moves the head off the tape and leads to Halt
\* raises the tape overrun: no halt flag is returned, the machine is not
\* Halted and its state is the one it had before the step.
C17_OverrunBeforeHalt ==
    HaltingMoveOffTape =>
        /\ outcome = "TapeOverrun"
        /\ current_state = pre.state /\ current_state # -1
        /\ result[1] = 0

C17_Witness == HaltingMoveOffTape /\ outcome = "TapeOverrun" /\ calls >= 2

\* C18: run() does not raise insufficient progress before it has made as
\* many steps as the check interval.
C18_NoFailureBeforeOneInterval ==
    (RunEnded /\ outcome = "InsufficientProgress") => calls >= check

\* The silent run of the same machine, followed until it is over: a run
\* whose counter stands at steps has evaluated the loop condition at most
\* steps + 2 times.
SilentTwin == SilentRun(Fresh, contents, check, steps + 2)

\* A run() that is over has ended as its silent twin ends.
EndsAsSilentTwin ==
    RunEnded =>
        /\ SilentTwin.pc = "ready"
        /\ SilentTwin.outcome = outcome
        /\ SilentTwin.steps = steps
        /\ SilentTwin.machine = Self

\* C19: inside run() the machine changes only in step(): a pass of the loop
\* that makes no call leaves tape, head and state as they were, and a call
\* is made on the machine as the pass found it, snapshot or not; and a
\* run() that is over, printing or not, has ended as the silent run of the
\* same table, tape length and check interval ends: same outcome, same step
\* counter, same tape, head and state.
C19_DiagnosticsChangeNothing ==
    /\ [][last_op = "run" =>
             IF calls' = calls
             THEN /\ tape' = tape
                  /\ current_position' = current_position
                  /\ current_state' = current_state
             ELSE pre' = [tape |-> tape, pos |-> current_position,
                          state |-> current_state]]_vars
    /\ []EndsAsSilentTwin

C19_Witness ==
    /\ RunEnded /\ ~silent /\ Len(printed) >= 1
    /\ outcome = "Halted" /\ steps = MaxSteps /\ count_ones(tape) >= 2
====
